---- MODULE Spec2Model ----
(***************************************************************************)
(* Model of the two batch routines of the Analytics application and of the *)
(* file-serving path check:                                                *)
(*   app/importers.py     import_companies_csv, _norm, _norm_website       *)
(*   app/file_indexer.py  iter_repo_files, guess_kind, reindex_documents   *)
(*   app/main.py          safe_resolve_under_repo, file_download           *)
(* Strings are sequences of one-character strings, so that trimming,       *)
(* lowercasing, prefix removal and suffix extraction are computed.         *)
(***************************************************************************)
EXTENDS Integers, Sequences, FiniteSets, TLC

VARIABLES
    companies,      \* the companies table: sequence of committed rows (id = index)
    imp,            \* per import run: the locals of import_companies_csv
    importResult,   \* what the latest import call returned (or NoResult)
    fs,             \* the file tree under (and around) the repository root
    documents,      \* the documents table: sequence of committed rows
    reindexResult,  \* what the latest reindex call returned or raised (or NoResult)
    served,         \* what the latest file_download or file_detail call answered
    called,         \* the latest call of a pure function: its argument and its value
    reidx,          \* per overlapping reindex run: what its session has loaded and staged
    tals,           \* the tals table: sequence of committed rows (id = index)
    tal_accounts,   \* the tal_accounts table: sequence of committed rows (id = index)
    calls,          \* the calls table: sequence of committed rows (id = index)
    response        \* what the latest hypothesis handler answered, and to whom

importVars == <<companies, imp, importResult>>
fileVars == <<fs, documents, reindexResult, served>>
appVars == <<tals, tal_accounts, calls, response>>
vars == <<companies, imp, importResult, fs, documents, reindexResult, served, called,
          reidx, tals, tal_accounts, calls, response>>

----------------------------------------------------------------------------
(* Bounds of the model *)

\* data rows of a CSV file
MaxRows == 3
\* files and links present in the tree at one time
MaxFiles == 2
\* names in a rel_path written into the documents table from outside
MaxSegs == 3
\* rows the companies table may reach (imports that could exceed it are not started)
MaxCompanies == 4
\* stand-in for the 1000 of importers.py line 94, scaled to the files above
BatchSize == 2
\* data rows of a CSV file read by one of two overlapping import runs
RaceRows == 2
\* pieces a website cell is put together from
MaxPieces == 3
\* rows the calls table may reach
MaxCalls == 1
\* rows the tal_accounts table may reach
MaxAccounts == 2

----------------------------------------------------------------------------
(* Strings *)

UpperToLower ==
    "A" :> "a" @@ "B" :> "b" @@ "C" :> "c" @@ "D" :> "d" @@ "E" :> "e" @@
    "F" :> "f" @@ "G" :> "g" @@ "H" :> "h" @@ "I" :> "i" @@ "J" :> "j" @@
    "K" :> "k" @@ "L" :> "l" @@ "M" :> "m" @@ "N" :> "n" @@ "O" :> "o" @@
    "P" :> "p" @@ "Q" :> "q" @@ "R" :> "r" @@ "S" :> "s" @@ "T" :> "t" @@
    "U" :> "u" @@ "V" :> "v" @@ "W" :> "w" @@ "X" :> "x" @@ "Y" :> "y" @@
    "Z" :> "z"

\* str.lower()
Lower(s) ==
    [i \in 1..Len(s) |-> IF s[i] \in DOMAIN UpperToLower THEN UpperToLower[s[i]] ELSE s[i]]

Whitespace == {" ", "\t"}

RECURSIVE LStrip(_, _)
LStrip(s, cs) ==
    IF s # <<>> /\ Head(s) \in cs THEN LStrip(Tail(s), cs) ELSE s

RECURSIVE RStrip(_, _)
RStrip(s, cs) ==
    IF s # <<>> /\ s[Len(s)] \in cs THEN RStrip(SubSeq(s, 1, Len(s) - 1), cs) ELSE s

\* str.strip(chars)
Strip(s, cs) == RStrip(LStrip(s, cs), cs)

\* str.removeprefix(p)
RemovePrefix(s, p) ==
    IF Len(s) >= Len(p) /\ SubSeq(s, 1, Len(p)) = p
    THEN SubSeq(s, Len(p) + 1, Len(s))
    ELSE s

Http == <<"h", "t", "t", "p", ":", "/", "/">>
Https == <<"h", "t", "t", "p", "s", ":", "/", "/">>

\* _norm: (s or "").strip(); a missing cell is the empty string
norm(s) == Strip(s, Whitespace)

\* _norm_website
norm_website(s) ==
    LET s1 == Lower(norm(s))
        s2 == RemovePrefix(RemovePrefix(s1, Http), Https)
    IN  Strip(Strip(s2, Whitespace), {"/"})

----------------------------------------------------------------------------
(* The CSV cells the import runs draw their rows from *)

ExampleCom == <<"e", "x", "a", "m", "p", "l", "e", ".", "c", "o", "m">>
ACom == <<"a", ".", "c", "o", "m">>

\* "Example.com/"
ExampleComRaw == <<"E">> \o Tail(ExampleCom) \o <<"/">>
\* "https://http://a.com"
DoubleSchemeRaw == Https \o Http \o ACom

RawWebsites == { <<>>, ExampleComRaw, DoubleSchemeRaw }

RawNames == { <<>>, <<" ", "n">> }

\* the rows of the files: every name with every website, the doubled scheme
\* only in rows that have a name
RawRows == {c \in RawNames \X RawWebsites : ~(c[1] = <<>> /\ c[2] = DoubleSchemeRaw)}

----------------------------------------------------------------------------
(* import_companies_csv *)

Runs == {"r1", "r2"}

NoResult == [status |-> "none"]

IdleRun == [pc |-> "idle"]

\* lines 34-37: the normalized non-empty websites already stored
LoadWebsites(table) ==
    { norm_website(table[i].website) : i \in {j \in 1..Len(table) : table[j].website # <<>>} }

\* line 59: limit and total > limit (None and 0 are both "no limit")
LimitReached(limit, total) == limit # 0 /\ total > limit

\* a row test that looks the website up in the table as it is when the row is read
RowDecision_ChecksTable(name, website_norm, existing_websites) ==
    IF name = <<>> /\ website_norm = <<>> THEN "skip_empty"
    ELSE IF website_norm # <<>>
            /\ website_norm \in existing_websites
                                \cup {companies[i].website : i \in 1..Len(companies)}
         THEN "skip_dup"
    ELSE "accept"

\* a row test that skips every row without a name
RowDecision_SkipNameless(name, website_norm, existing_websites) ==
    IF name = <<>> THEN "skip_empty"
    ELSE IF website_norm # <<>> /\ website_norm \in existing_websites THEN "skip_dup"
    ELSE "accept"

\* the row test of line 71 written with "or" in place of "and"
RowDecision_SkipAnyEmpty(name, website_norm, existing_websites) ==
    IF name = <<>> \/ website_norm = <<>> THEN "skip_empty"
    ELSE IF website_norm # <<>> /\ website_norm \in existing_websites THEN "skip_dup"
    ELSE "accept"

\* lines 71-77: what happens to a row with these normalized cells
RowDecision(name, website_norm, existing_websites) ==
    IF name = <<>> /\ website_norm = <<>> THEN "skip_empty"
    ELSE IF website_norm # <<>> /\ website_norm \in existing_websites THEN "skip_dup"
    ELSE "accept"

\* lines 79-87: the entry built for an accepted row (website None is <<>>)
NewCompany(name, website_norm) == [name |-> name, website |-> website_norm]

\* lines 90-91 left out: the seen-set is not updated as rows are accepted
SeenAfter_NotUpdated(existing_websites, website_norm) == existing_websites

\* lines 90-91
SeenAfter(existing_websites, website_norm) ==
    IF website_norm # <<>> THEN existing_websites \cup {website_norm} ELSE existing_websites

\* a commit that writes the pending entries in place of the stored ones
Commit_ReplacesTable(table, to_add) == to_add

\* lines 94 and 99: add_all + commit appends the pending entries to the table
Commit(table, to_add) == table \o to_add

\* a loop that never flushes before its end
ShouldFlush_Never(to_add) == FALSE

\* line 94: the pending entries have reached the batch size
ShouldFlush(to_add) == Len(to_add) >= BatchSize

\* lines 30-31: the path does not exist; FileNotFoundError is raised before
\* the table is read
MissingFile(table) ==
    [status |-> "error", error |-> "FileNotFoundError", found |-> FALSE, before |-> table]

\* a missing file read as a file without rows
ImportMissing_AsEmptyFile(r) ==
    /\ imp[r].pc = "idle"
    /\ importResult' = [status |-> "ok", total_rows |-> 0, inserted |-> 0, skipped |-> 0,
                        limit |-> 0, nrows |-> 0, log |-> <<>>,
                        startLen |-> Len(companies), found |-> FALSE, before |-> companies]
    /\ UNCHANGED <<companies, imp, fileVars, called, reidx, appVars>>

ImportMissing(r) ==
    /\ imp[r].pc = "idle"
    /\ importResult' = MissingFile(companies)
    /\ UNCHANGED <<companies, imp, fileVars, called, reidx, appVars>>

\* lines 30-41 and 55-56: the file exists; load the websites, open the reader
ImportStart(r, lim, n) ==
    /\ imp[r].pc = "idle"
    /\ Len(companies) + n <= MaxCompanies
    /\ imp' = [imp EXCEPT ![r] =
                 [pc |-> "loop", limit |-> lim, nrows |-> n,
                  existing_websites |-> LoadWebsites(companies),
                  inserted |-> 0, skipped |-> 0, total |-> 0,
                  to_add |-> <<>>, log |-> <<>>, startLen |-> Len(companies)]]
    /\ importResult' = NoResult
    /\ UNCHANGED <<companies, fileVars, called, reidx, appVars>>

\* lines 57-97: one pass of the loop body for a row that is processed
ImportRow(r, rawName, rawWebsite) ==
    LET st == imp[r]
        total == st.total + 1
        name == norm(rawName)
        website_norm == norm_website(rawWebsite)
        decision == RowDecision(name, website_norm, st.existing_websites)
        accepted == decision = "accept"
        to_add == IF accepted THEN Append(st.to_add, NewCompany(name, website_norm))
                  ELSE st.to_add
        flush == accepted /\ ShouldFlush(to_add)
        entry == [name |-> rawName, website |-> rawWebsite,
                  outcome |-> IF accepted THEN "inserted" ELSE "skipped"]
    IN  /\ st.pc = "loop"
        /\ st.total < st.nrows
        /\ ~LimitReached(st.limit, total)
        /\ imp' = [imp EXCEPT ![r] =
                     [st EXCEPT !.total = total,
                                !.inserted = IF accepted THEN @ + 1 ELSE @,
                                !.skipped = IF accepted THEN @ ELSE @ + 1,
                                !.existing_websites =
                                    IF accepted THEN SeenAfter(@, website_norm) ELSE @,
                                !.to_add = IF flush THEN <<>> ELSE to_add,
                                !.log = Append(@, entry)]]
        /\ companies' = IF flush THEN Commit(companies, to_add) ELSE companies
        /\ UNCHANGED <<importResult, fileVars, called, reidx, appVars>>

\* the record returned at line 103, with the run's inputs and what it read
Returned(st, total) ==
    [status |-> "ok", total_rows |-> total,
     inserted |-> st.inserted, skipped |-> st.skipped,
     limit |-> st.limit, nrows |-> st.nrows,
     log |-> st.log, startLen |-> st.startLen, found |-> TRUE]

\* lines 99-101 left out: the run returns without its final flush
Return_NoFinalFlush(r, total) ==
    /\ importResult' = Returned(imp[r], total)
    /\ imp' = [imp EXCEPT ![r] = IdleRun]
    /\ UNCHANGED <<companies, fileVars, called, reidx, appVars>>

\* a return that also empties the documents table
Return_DropsDocuments(r, total) ==
    LET st == imp[r]
    IN  /\ companies' = IF st.to_add # <<>> THEN Commit(companies, st.to_add) ELSE companies
        /\ importResult' = Returned(st, total)
        /\ imp' = [imp EXCEPT ![r] = IdleRun]
        /\ documents' = <<>>
        /\ UNCHANGED <<fs, reindexResult, served, called, reidx, appVars>>

\* lines 99-103: the final flush and the returned record
Return(r, total) ==
    LET st == imp[r]
    IN  /\ companies' = IF st.to_add # <<>> THEN Commit(companies, st.to_add) ELSE companies
        /\ importResult' = Returned(st, total)
        /\ imp' = [imp EXCEPT ![r] = IdleRun]
        /\ UNCHANGED <<fileVars, called, reidx, appVars>>

\* lines 57-60: a row is read past the limit: break, then lines 99-103
ImportBreak(r) ==
    /\ imp[r].pc = "loop"
    /\ imp[r].total < imp[r].nrows
    /\ LimitReached(imp[r].limit, imp[r].total + 1)
    /\ Return(r, imp[r].total + 1)

\* line 57: the reader is exhausted, then lines 99-103
ImportEOF(r) ==
    /\ imp[r].pc = "loop"
    /\ imp[r].total = imp[r].nrows
    /\ Return(r, imp[r].total)

\* the process is stopped inside the loop (lines 57-97): the session is
\* dropped with the pending entries, the committed batches stay
ImportInterrupt(r) ==
    LET st == imp[r]
    IN  /\ st.pc = "loop"
        /\ importResult' = [status |-> "interrupted", log |-> st.log,
                            startLen |-> st.startLen, lost |-> st.to_add, found |-> TRUE]
        /\ imp' = [imp EXCEPT ![r] = IdleRun]
        /\ UNCHANGED <<companies, fileVars, called, reidx, appVars>>

----------------------------------------------------------------------------
(* File names and paths.  A name is a string; a path is a sequence of      *)
(* names, absolute paths counted from the filesystem root.                 *)

Name_repo == <<"r", "e", "p", "o">>
Name_secret == <<"s", ".", "m", "d">>
DotDot == <<".", ".">>
Name_d == <<"d">>
Name_n == <<"n">>
Name_a_md == <<"a", ".", "m", "d">>
Name_a_pyc == <<"a", ".", "P", "Y", "C">>
Name_git == <<".", "g", "i", "t">>
Name_venv == <<".", "v", "e", "n", "v">>
Name_pycache == <<"_", "_", "p", "y", "c", "a", "c", "h", "e", "_", "_">>
Name_db_wal == <<"p", "r", "o", "d", "u", "c", "t", ".", "d", "b", "-", "w", "a", "l">>
Name_db_shm == <<"p", "r", "o", "d", "u", "c", "t", ".", "d", "b", "-", "s", "h", "m">>

\* file_indexer.py lines 13-17
EXCLUDED_DIRS == {Name_venv, Name_pycache, Name_git}

\* file_indexer.py lines 19-23
EXCLUDED_FILES == {Name_db_wal, Name_db_shm}

\* main.py line 26, resolved: the repository root, one level below "/"
REPO_ROOT == <<Name_repo>>

\* PurePath.suffix: from the last dot of the name, unless that dot is the
\* first or the last character or there is none
Suffix(name) ==
    LET dots == {k \in 1..Len(name) : name[k] = "."}
        i == IF dots = {} THEN 0 ELSE CHOOSE k \in dots : \A l \in dots : l <= k
    IN  IF 1 < i /\ i < Len(name) THEN SubSeq(name, i, Len(name)) ELSE <<>>

\* p.suffix.lstrip("."), the extension in the letter case of the name
ExtOf_NoLower(name) == LStrip(Suffix(name), {"."})

\* p.suffix.lower().lstrip(".")
ExtOf(name) == LStrip(Lower(Suffix(name)), {"."})

\* guess_kind, on the name of the path
guess_kind(name) ==
    LET ext == ExtOf(name)
    IN  IF ext \in {<<"c", "s", "v">>} THEN "csv"
        ELSE IF ext \in {<<"h", "t", "m", "l">>, <<"h", "t", "m">>} THEN "html"
        ELSE IF ext \in {<<"m", "d">>} THEN "md"
        ELSE IF ext \in {<<"p", "y">>} THEN "py"
        ELSE IF ext \in {<<"j", "p", "g">>, <<"j", "p", "e", "g">>, <<"p", "n", "g">>,
                         <<"g", "i", "f">>, <<"w", "e", "b", "p">>} THEN "image"
        ELSE IF ext \in {<<"d", "b">>, <<"s", "q", "l", "i", "t", "e">>} THEN "db"
        ELSE "other"

RECURSIVE AsPosix(_)
\* PurePath.as_posix of a relative path: the names joined by "/"
AsPosix(parts) ==
    IF parts = <<>> THEN <<".">>
    ELSE IF Len(parts) = 1 THEN parts[1]
    ELSE parts[1] \o <<"/">> \o AsPosix(Tail(parts))

RECURSIVE SplitOn(_, _, _)
\* str.split(sep), cur being the piece read so far
SplitOn(s, sep, cur) ==
    IF s = <<>> THEN <<cur>>
    ELSE IF Head(s) = sep THEN <<cur>> \o SplitOn(Tail(s), sep, <<>>)
    ELSE SplitOn(Tail(s), sep, Append(cur, Head(s)))

\* PurePosixPath(s).parts without the root: empty and "." pieces are dropped
PathParts(s) == SelectSeq(SplitOn(s, "/", <<>>), LAMBDA c : c \notin {<<>>, <<".">>})

\* PurePosixPath(s).is_absolute()
IsAbsolute(s) == s # <<>> /\ s[1] = "/"

IsPrefix(a, b) == Len(a) <= Len(b) /\ SubSeq(b, 1, Len(a)) = a

Parent(path) == IF path = <<>> THEN <<>> ELSE SubSeq(path, 1, Len(path) - 1)

Last(path) == path[Len(path)]

----------------------------------------------------------------------------
(* The file tree.  Directories are the proper prefixes of the paths that   *)
(* hold a file or a link.                                                  *)

PosA == REPO_ROOT \o <<Name_a_md>>
PosN == REPO_ROOT \o <<Name_n>>
PosSub == REPO_ROOT \o <<Name_d, Name_a_md>>
PosGit == REPO_ROOT \o <<Name_git, Name_a_md>>
PosCache == REPO_ROOT \o <<Name_d, Name_pycache, Name_a_md>>
PosWal == REPO_ROOT \o <<Name_db_wal>>
PosPyc == REPO_ROOT \o <<Name_d, Name_a_pyc>>
PosOutside == <<Name_secret>>

\* the places of the tree that change
Positions == {PosA, PosN, PosSub, PosGit, PosCache, PosWal, PosPyc}
\* the places where a symbolic link may be made, and what it may point to
LinkPositions == {PosN}
LinkTargets == {PosA, PosGit, PosWal, PosOutside}
\* the places whose file is rewritten with other sizes and times; sizes and
\* times are only ever compared for equality, so two of each stand for all
WrittenPositions == {PosA}
Sizes == {1, 2}
Mtimes == {1, 2}

Absent == [type |-> "absent"]
RegularFile(size, mtime) == [type |-> "file", size |-> size, mtime |-> mtime]
SymLink(target) == [type |-> "link", target |-> target]

\* the node at an absolute path; the file outside the root is always there
NodeAt(tree, path) ==
    IF path \in Positions THEN tree[path]
    ELSE IF path = PosOutside THEN RegularFile(1, 1)
    ELSE Absent

Present(tree) == {p \in Positions : tree[p].type # "absent"}

CreateFile(p, size, mtime) ==
    /\ fs[p].type = "absent"
    /\ Cardinality(Present(fs)) < MaxFiles
    /\ p \in WrittenPositions \/ (size = 1 /\ mtime = 1)
    /\ fs' = [fs EXCEPT ![p] = RegularFile(size, mtime)]
    /\ reindexResult' = NoResult
    /\ served' = NoResult
    /\ UNCHANGED <<documents, importVars, called, reidx, appVars>>

WriteFile(p, size, mtime) ==
    /\ fs[p].type = "file"
    /\ p \in WrittenPositions
    /\ fs[p] # RegularFile(size, mtime)
    /\ fs' = [fs EXCEPT ![p] = RegularFile(size, mtime)]
    /\ reindexResult' = NoResult
    /\ served' = NoResult
    /\ UNCHANGED <<documents, importVars, called, reidx, appVars>>

MakeLink(p, target) ==
    /\ fs[p].type = "absent"
    /\ Cardinality(Present(fs)) < MaxFiles
    /\ fs' = [fs EXCEPT ![p] = SymLink(target)]
    /\ reindexResult' = NoResult
    /\ served' = NoResult
    /\ UNCHANGED <<documents, importVars, called, reidx, appVars>>

DeleteFile(p) ==
    /\ fs[p].type # "absent"
    /\ fs' = [fs EXCEPT ![p] = Absent]
    /\ reindexResult' = NoResult
    /\ served' = NoResult
    /\ UNCHANGED <<documents, importVars, called, reidx, appVars>>

----------------------------------------------------------------------------
(* iter_repo_files *)

\* os.walk: the entries of a directory that are not directories
FilesIn(tree, dir) == {p \in Present(tree) : Parent(p) = dir}

\* os.walk: the sub-directories of a directory
DirsIn(tree, dir) ==
    {SubSeq(p, 1, Len(dir) + 1) : p \in {q \in Present(tree) : IsPrefix(dir, Parent(q)) /\ Parent(q) # dir}}

RECURSIVE Walked(_, _)
\* lines 56-61: the files the walk visits from dir on, excluded directories pruned
Walked(tree, dir) ==
    FilesIn(tree, dir)
        \cup UNION {Walked(tree, sub) : sub \in {d \in DirsIn(tree, dir) : Last(d) \notin EXCLUDED_DIRS}}

\* the orders in which a top-down walk can visit these files: a directory's
\* files come before the files of the directories below it; the order within
\* a directory and among sibling directories is the directory listing's
WalkOrders(files) ==
    {o \in [1..Cardinality(files) -> files] :
        /\ \A i, j \in DOMAIN o : i # j => o[i] # o[j]
        /\ \A i, j \in DOMAIN o :
              (i < j) => ~(Parent(o[j]) # Parent(o[i]) /\ IsPrefix(Parent(o[j]), Parent(o[i])))}

\* line 70, p.stat(): follows a link; fails on a link whose target is missing
Stat(tree, p) ==
    LET node == NodeAt(tree, p)
    IN  IF node.type = "link" THEN NodeAt(tree, node.target) ELSE node

RECURSIVE JoinReal(_, _, _)
\* os.path.realpath, not strict: the names of rest applied to the resolved path cur
JoinReal(tree, cur, rest) ==
    IF rest = <<>> THEN cur
    ELSE IF Head(rest) = DotDot THEN JoinReal(tree, Parent(cur), Tail(rest))
    ELSE IF Head(rest) \in {<<>>, <<".">>} THEN JoinReal(tree, cur, Tail(rest))
    ELSE LET new == cur \o <<Head(rest)>>
         IN  IF NodeAt(tree, new).type = "link"
             THEN JoinReal(tree, <<>>, NodeAt(tree, new).target \o Tail(rest))
             ELSE JoinReal(tree, new, Tail(rest))

\* Path.resolve() of an absolute path
Resolve(tree, path) == JoinReal(tree, <<>>, path)

\* lines 62-67: the name tests that drop a file from the scan
SkippedByName(name) ==
    name \in EXCLUDED_FILES \/ Lower(Suffix(name)) \in {<<".", "p", "y", "c">>}

\* lines 62-72: the visited files that yield an entry
Listed(tree, p) == ~SkippedByName(Last(p)) /\ Stat(tree, p).type = "file"

\* line 74: relative_to(repo_root) raises ValueError outside the root
UnderRoot(path) == IsPrefix(REPO_ROOT, path)

\* lines 74-84: the FileMeta of a listed file
FileMeta(tree, p) ==
    [rel_path |-> AsPosix(SubSeq(Resolve(tree, p), Len(REPO_ROOT) + 1, Len(Resolve(tree, p)))),
     ext |-> ExtOf(Last(p)),
     kind |-> guess_kind(Last(p)),
     size_bytes |-> Stat(tree, p).size,
     mtime_unix |-> Stat(tree, p).mtime]

\* the listed files of a visiting order, in that order
ListedOf(tree, order) == SelectSeq(order, LAMBDA p : Listed(tree, p))

\* iter_repo_files raises when a listed file resolves outside the root
ScanRaises(tree) ==
    \E p \in Walked(tree, REPO_ROOT) : Listed(tree, p) /\ ~UnderRoot(Resolve(tree, p))

\* iter_repo_files: the list it returns when the walk visits in this order
iter_repo_files(tree, order) ==
    LET listed == ListedOf(tree, order)
    IN  [i \in 1..Len(listed) |-> FileMeta(tree, listed[i])]

----------------------------------------------------------------------------
(* reindex_documents *)

\* a row whose kind is taken from the name in the stored path, not from the scan
Document_KindOfPath(m) ==
    [rel_path |-> m.rel_path, kind |-> guess_kind(Last(PathParts(m.rel_path))), ext |-> m.ext,
     size_bytes |-> m.size_bytes, mtime_unix |-> m.mtime_unix]

\* lines 105-111 and 117-120: the row fields set from a scanned entry
Document(m) ==
    [rel_path |-> m.rel_path, kind |-> m.kind, ext |-> m.ext,
     size_bytes |-> m.size_bytes, mtime_unix |-> m.mtime_unix]

\* line 95: by_path.get(rel_path), as the index of the row (0 for None); with
\* several rows of one path the dict keeps the last
ByPath(existing, rel_path) ==
    LET hits == {i \in 1..Len(existing) : existing[i].rel_path = rel_path}
    IN  IF hits = {} THEN 0 ELSE CHOOSE i \in hits : \A j \in hits : j <= i

\* line 116
Differs(d, m) ==
    \/ d.size_bytes # m.size_bytes
    \/ d.mtime_unix # m.mtime_unix
    \/ d.kind # m.kind
    \/ d.ext # m.ext

RECURSIVE Upsert(_, _, _)
\* lines 101-121: the loop over metas; st holds the loaded rows (overwritten in
\* place), the rows added to the session and the two counters
Upsert(metas, existing, st) ==
    IF metas = <<>> THEN st
    ELSE LET m == Head(metas)
             i == ByPath(existing, m.rel_path)
         IN  IF i = 0
             THEN Upsert(Tail(metas), existing,
                         [st EXCEPT !.added = Append(@, Document(m)), !.created = @ + 1])
             ELSE IF Differs(st.rows[i], m)
             THEN Upsert(Tail(metas), existing,
                         [st EXCEPT !.rows[i] = Document(m), !.updated = @ + 1])
             ELSE Upsert(Tail(metas), existing, st)

\* line 91
ScannedPaths(metas) == {metas[i].rel_path : i \in 1..Len(metas)}

\* lines 124-127: the loaded rows that stay
Kept(rows, scanned_paths) == SelectSeq(rows, LAMBDA d : d.rel_path \in scanned_paths)

\* the rel_path column declared without unique=True
UniqueViolation_NotEnforced(table) == FALSE

\* models.py line 155: rel_path is unique
UniqueViolation(table) ==
    \E i, j \in 1..Len(table) : i # j /\ table[i].rel_path = table[j].rel_path

RECURSIVE FirstOfEachPath(_, _)
\* the rows of a table without those whose rel_path an earlier row holds
FirstOfEachPath(table, seen) ==
    IF table = <<>> THEN <<>>
    ELSE IF Head(table).rel_path \in seen THEN FirstOfEachPath(Tail(table), seen)
    ELSE <<Head(table)>> \o FirstOfEachPath(Tail(table), seen \cup {Head(table).rel_path})

\* a session that writes each staged row as it is flushed and keeps what was
\* written when a later row fails
Rollback_KeepsFlushed(prior, staged) == FirstOfEachPath(staged, {})

\* db.py lines 16-18: the session is closed without a commit, which rolls
\* back what the run staged; the table is the one before the run
Rollback(prior, staged) == prior

\* the whole of reindex_documents for one visiting order of the walk
Reindex(order) ==
    /\ order \in WalkOrders(Walked(fs, REPO_ROOT))
    /\ LET metas == iter_repo_files(fs, order)
           scanned_paths == ScannedPaths(metas)
           st == Upsert(metas, documents,
                        [rows |-> documents, added |-> <<>>, created |-> 0, updated |-> 0])
           deleted == Len(documents) - Len(Kept(documents, scanned_paths))
           staged == st.rows \o st.added
           table == Kept(st.rows, scanned_paths) \o st.added
       IN  IF ScanRaises(fs)
           THEN /\ reindexResult' = [status |-> "error", error |-> "ValueError",
                                      prior |-> documents, commits |-> 0]
                /\ documents' = Rollback(documents, documents)
           ELSE IF UniqueViolation(staged)
           THEN /\ reindexResult' = [status |-> "error", error |-> "IntegrityError",
                                      prior |-> documents, commits |-> 0]
                /\ documents' = Rollback(documents, staged)
           ELSE /\ documents' = table
                /\ reindexResult' =
                     [status |-> "ok", total_scanned |-> Len(metas),
                      created |-> st.created, updated |-> st.updated, deleted |-> deleted,
                      metas |-> metas, prior |-> documents,
                      second |-> (reindexResult.status = "ok"), commits |-> 1]
    /\ served' = NoResult
    /\ UNCHANGED <<fs, importVars, called, reidx, appVars>>

----------------------------------------------------------------------------
(* reindex_documents in two steps, for runs that overlap: each run has its  *)
(* own session; what it stages is written to the table at its commit        *)

\* lines 90-127: the scan, the load of the existing rows and the staging
ReindexBegin(r, order) ==
    /\ reidx[r].pc = "idle"
    /\ order \in WalkOrders(Walked(fs, REPO_ROOT))
    /\ LET metas == iter_repo_files(fs, order)
           st == Upsert(metas, documents,
                        [rows |-> documents, added |-> <<>>, created |-> 0, updated |-> 0])
       IN  IF ScanRaises(fs)
           THEN /\ reindexResult' = [status |-> "error", error |-> "ValueError",
                                      prior |-> documents, commits |-> 0]
                /\ UNCHANGED reidx
           ELSE /\ reidx' = [reidx EXCEPT ![r] =
                               [pc |-> "staged", metas |-> metas, loaded |-> documents,
                                rows |-> st.rows, added |-> st.added,
                                created |-> st.created, updated |-> st.updated]]
                /\ UNCHANGED reindexResult
    /\ UNCHANGED <<fs, documents, served, importVars, called, appVars>>

\* the UPDATE and INSERT statements of a flush: the loaded rows that the run
\* changed are written over the stored rows of the same path, the added rows
\* are appended
WriteStaged(table, s) ==
    [i \in 1..Len(table) |->
        LET hits == {j \in 1..Len(s.loaded) :
                        s.loaded[j].rel_path = table[i].rel_path /\ s.rows[j] # s.loaded[j]}
        IN  IF hits = {} THEN table[i] ELSE s.rows[CHOOSE j \in hits : TRUE]]
        \o s.added

\* the DELETE statements of a flush: the loaded rows whose path was not scanned
DeleteStaged(table, s) ==
    SelectSeq(table, LAMBDA d :
        ~ /\ \E j \in 1..Len(s.loaded) : s.loaded[j].rel_path = d.rel_path
          /\ d.rel_path \notin ScannedPaths(s.metas))

\* a check of the staged rows against the rows the run itself loaded only
CommitFails_OwnRowsOnly(table, s) == UniqueViolation(s.rows \o s.added)

\* models.py line 155 at the flush of line 129: the rows written violate the
\* unique rel_path of the table as it is at the commit
CommitFails(table, s) == UniqueViolation(WriteStaged(table, s))

\* lines 129-130: the commit and the returned record
ReindexCommit(r) ==
    /\ reidx[r].pc = "staged"
    /\ LET s == reidx[r]
           written == WriteStaged(documents, s)
       IN  IF CommitFails(documents, s)
           THEN /\ reindexResult' = [status |-> "error", error |-> "IntegrityError",
                                      prior |-> documents, commits |-> 0, added |-> s.added]
                /\ documents' = Rollback(documents, written)
           ELSE /\ documents' = DeleteStaged(written, s)
                /\ reindexResult' =
                     [status |-> "ok", total_scanned |-> Len(s.metas),
                      created |-> s.created, updated |-> s.updated,
                      deleted |-> Len(written) - Len(DeleteStaged(written, s)),
                      metas |-> s.metas, prior |-> documents,
                      second |-> FALSE, commits |-> 1]
    /\ reidx' = [reidx EXCEPT ![r] = IdleRun]
    /\ UNCHANGED <<fs, served, importVars, called, appVars>>

----------------------------------------------------------------------------
(* safe_resolve_under_repo, file_download, file_detail *)

\* REPO_ROOT / rel: an absolute rel replaces the root
JoinRoot(rel_posix_path) ==
    IF IsAbsolute(rel_posix_path) THEN PathParts(rel_posix_path)
    ELSE REPO_ROOT \o PathParts(rel_posix_path)

Rejected == [ok |-> FALSE, path |-> <<>>]

\* the check of line 122 left out
safe_resolve_NoCheck(tree, rel_posix_path) ==
    [ok |-> TRUE, path |-> Resolve(tree, JoinRoot(rel_posix_path))]

\* safe_resolve_under_repo: the resolved target, or None (Rejected)
safe_resolve_under_repo(tree, rel_posix_path) ==
    LET target == Resolve(tree, JoinRoot(rel_posix_path))
    IN  IF (\E n \in 0..(Len(target) - 1) : SubSeq(target, 1, n) = REPO_ROOT) \/ target = REPO_ROOT
        THEN [ok |-> TRUE, path |-> target]
        ELSE Rejected

\* a directory: the repository root, what lies above it, and every proper
\* prefix of the path of a file or link
IsDir(tree, path) ==
    \/ IsPrefix(path, REPO_ROOT)
    \/ \E p \in Present(tree) \cup {PosOutside} : Len(path) < Len(p) /\ IsPrefix(path, p)

\* Path.exists() and Path.is_file(), both following links
Exists(tree, path) == IsDir(tree, path) \/ Stat(tree, path).type = "file"
IsFile(tree, path) == ~IsDir(tree, path) /\ Stat(tree, path).type = "file"

\* read_text_preview, line 131: the suffixes that are read
PreviewSuffixes ==
    { <<".", "m", "d">>, <<".", "t", "x", "t">>, <<".", "c", "s", "v">>,
      <<".", "h", "t", "m", "l">>, <<".", "h", "t", "m">>, <<".", "p", "y">>,
      <<".", "j", "s", "o", "n">> }

\* file_download for the i-th row, by a logged-in user
FileDownload(i) ==
    /\ i \in 1..Len(documents)
    /\ LET r == safe_resolve_under_repo(fs, documents[i].rel_path)
       IN  served' =
             IF ~r.ok \/ ~Exists(fs, r.path) \/ ~IsFile(fs, r.path)
             THEN [status |-> "redirect", handler |-> "download", read |-> <<>>]
             ELSE [status |-> "file", handler |-> "download", read |-> Resolve(fs, r.path)]
    /\ reindexResult' = NoResult
    /\ UNCHANGED <<fs, documents, importVars, called, reidx, appVars>>

\* file_detail for the i-th row, by a logged-in user
FileDetail(i) ==
    /\ i \in 1..Len(documents)
    /\ LET r == safe_resolve_under_repo(fs, documents[i].rel_path)
       IN  served' =
             IF /\ r.ok
                /\ Exists(fs, r.path)
                /\ r.path # <<>>
                /\ Lower(Suffix(Last(r.path))) \in PreviewSuffixes
                /\ IsFile(fs, r.path)
             THEN [status |-> "preview", handler |-> "detail", read |-> Resolve(fs, r.path)]
             ELSE [status |-> "page", handler |-> "detail", read |-> <<>>]
    /\ reindexResult' = NoResult
    /\ UNCHANGED <<fs, documents, importVars, called, reidx, appVars>>

\* rel_path values written into the table from outside the scanner: up to
\* MaxSegs of these names joined by "/", relative or absolute
CraftSegments == {DotDot, Name_n, Name_secret, Name_a_md}

CraftedPaths ==
    UNION { { (IF abs THEN <<"/">> ELSE <<>>) \o AsPosix(segs) : abs \in BOOLEAN }
            : segs \in UNION {[1..n -> CraftSegments] : n \in 0..MaxSegs} }

CraftedDocument(rel_path) ==
    [rel_path |-> rel_path, kind |-> "other", ext |-> <<>>, size_bytes |-> 0, mtime_unix |-> 0]

----------------------------------------------------------------------------
(* load_hypothesis_for_user and the handlers of one hypothesis: the detail, *)
(* calls and metrics pages, tal_detail, tal_add and calls_new                *)

\* the logged-in users: two plain users and an admin
Users == { [id |-> 1, role |-> "user"], [id |-> 2, role |-> "user"], [id |-> 3, role |-> "admin"] }

\* the hypotheses table (id = index): one hypothesis of each plain user
Hypotheses == << [owner_user_id |-> 1], [owner_user_id |-> 2] >>

\* the ids asked for: the stored ones and one that is not stored
HypothesisIds == 1..(Len(Hypotheses) + 1)

\* the test of line 432 left out
load_hypothesis_NoOwnerTest(user, hypothesis_id) ==
    IF hypothesis_id \notin 1..Len(Hypotheses) THEN 0 ELSE hypothesis_id

\* load_hypothesis_for_user: the id of the hypothesis returned, 0 for None
load_hypothesis_for_user(user, hypothesis_id) ==
    IF hypothesis_id \notin 1..Len(Hypotheses) THEN 0
    ELSE IF user.role # "admin" /\ Hypotheses[hypothesis_id].owner_user_id # user.id THEN 0
    ELSE hypothesis_id

DigitValue ==
    "0" :> 0 @@ "1" :> 1 @@ "2" :> 2 @@ "3" :> 3 @@ "4" :> 4 @@
    "5" :> 5 @@ "6" :> 6 @@ "7" :> 7 @@ "8" :> 8 @@ "9" :> 9

\* characters for which str.isdigit() holds and int() raises ValueError; "sup2"
\* stands for the one character SUPERSCRIPT TWO
DigitsNotDecimal == {"sup2"}

\* str.isdigit()
IsDigit(s) == s # <<>> /\ \A i \in 1..Len(s) : s[i] \in DOMAIN DigitValue \cup DigitsNotDecimal

\* int(s) raises ValueError
IntRaises(s) == \E i \in 1..Len(s) : s[i] \notin DOMAIN DigitValue

RECURSIVE ToInt(_)
\* int(s) of a string of decimal digits
ToInt(s) == IF s = <<>> THEN 0 ELSE 10 * ToInt(SubSeq(s, 1, Len(s) - 1)) + DigitValue[s[Len(s)]]

\* lines 503 and 543: the id of the TAL of a hypothesis, 0 for None
TalOf(table, h) ==
    LET hits == {i \in 1..Len(table) : table[i].hypothesis_id = h}
    IN  IF hits = {} THEN 0 ELSE CHOOSE i \in hits : TRUE

\* lines 504-508 and 544-548: the tals table after the TAL of h is made sure of
WithTal(table, h) ==
    IF TalOf(table, h) # 0 THEN table
    ELSE Append(table, [hypothesis_id |-> h, owner_user_id |-> Hypotheses[h].owner_user_id])

\* an existence test that never finds the account
AccountExists_Never(table, tal_id, cid) == FALSE

\* lines 558-561: an account of this TAL for this company is stored
AccountExists(table, tal_id, cid) ==
    \E i \in 1..Len(table) : table[i].tal_id = tal_id /\ table[i].company_id = cid

\* what a handler answers: to whom, for which hypothesis id, and what it shows
Answer(handler, user, hypothesis_id, status, shown, input) ==
    [handler |-> handler, user |-> user, hypothesis_id |-> hypothesis_id,
     status |-> status, shown |-> shown, input |-> input]

\* hypothesis_detail, calls_list and hypothesis_metrics: the page of the
\* hypothesis, or the redirect to the list
HypothesisView(handler, user, hypothesis_id) ==
    LET h == load_hypothesis_for_user(user, hypothesis_id)
    IN  /\ response' = IF h = 0
                        THEN Answer(handler, user, hypothesis_id, "redirect", 0, <<>>)
                        ELSE Answer(handler, user, hypothesis_id, "page", h, <<>>)
        /\ UNCHANGED <<tals, tal_accounts, calls, importVars, fileVars, called, reidx>>

\* tal_detail
TalDetail(user, hypothesis_id) ==
    LET h == load_hypothesis_for_user(user, hypothesis_id)
    IN  /\ IF h = 0
           THEN /\ response' = Answer("tal_detail", user, hypothesis_id, "redirect", 0, <<>>)
                /\ UNCHANGED tals
           ELSE /\ tals' = WithTal(tals, h)
                /\ response' = Answer("tal_detail", user, hypothesis_id, "page", h, <<>>)
        /\ UNCHANGED <<tal_accounts, calls, importVars, fileVars, called, reidx>>

\* tal_add
TalAdd(user, hypothesis_id, company_id, fit_reason) ==
    LET h == load_hypothesis_for_user(user, hypothesis_id)
        digits == norm(company_id)
        cid == ToInt(digits)
        tal_id == TalOf(WithTal(tals, h), h)
    IN  /\ Len(tal_accounts) < MaxAccounts
        /\ IF h = 0
           THEN /\ response' = Answer("tal_add", user, hypothesis_id, "redirect", 0, company_id)
                /\ UNCHANGED <<tals, tal_accounts>>
           ELSE /\ tals' = WithTal(tals, h)
                /\ IF ~IsDigit(digits)
                   THEN /\ response' = Answer("tal_add", user, hypothesis_id, "not_digits", h, company_id)
                        /\ UNCHANGED tal_accounts
                   ELSE IF IntRaises(digits)
                   THEN /\ response' = Answer("tal_add", user, hypothesis_id, "error", h, company_id)
                        /\ UNCHANGED tal_accounts
                   ELSE IF cid \notin 1..Len(companies)
                   THEN /\ response' = Answer("tal_add", user, hypothesis_id, "no_company", h, company_id)
                        /\ UNCHANGED tal_accounts
                   ELSE IF AccountExists(tal_accounts, tal_id, cid)
                   THEN /\ response' = Answer("tal_add", user, hypothesis_id, "exists", h, company_id)
                        /\ UNCHANGED tal_accounts
                   ELSE /\ response' = Answer("tal_add", user, hypothesis_id, "added", h, company_id)
                        /\ tal_accounts' = Append(tal_accounts,
                                                  [tal_id |-> tal_id, company_id |-> cid,
                                                   fit_reason |-> norm(fit_reason)])
        /\ UNCHANGED <<calls, importVars, fileVars, called, reidx>>

\* calls_new
CallsNew(user, hypothesis_id, tal_account_id) ==
    LET h == load_hypothesis_for_user(user, hypothesis_id)
        digits == norm(tal_account_id)
        ta == IF IsDigit(digits) /\ ~IntRaises(digits) /\ ToInt(digits) \in 1..Len(tal_accounts)
              THEN ToInt(digits) ELSE 0
    IN  /\ Len(calls) < MaxCalls
        /\ IF h = 0
           THEN /\ response' = Answer("calls_new", user, hypothesis_id, "redirect", 0, tal_account_id)
                /\ UNCHANGED calls
           ELSE IF IsDigit(digits) /\ IntRaises(digits)
           THEN /\ response' = Answer("calls_new", user, hypothesis_id, "error", h, tal_account_id)
                /\ UNCHANGED calls
           ELSE /\ response' = Answer("calls_new", user, hypothesis_id, "added", h, tal_account_id)
                /\ calls' = Append(calls,
                                   [owner_user_id |-> user.id, hypothesis_id |-> h,
                                    tal_account_id |-> ta,
                                    company_id |-> IF ta = 0 THEN 0
                                                   ELSE tal_accounts[ta].company_id])
        /\ UNCHANGED <<tals, tal_accounts, importVars, fileVars, called, reidx>>

\* the form values of company_id and tal_account_id
IdInputs == { <<>>, <<"1">>, <<" ", "2">>, <<"9">>, <<"x">>, <<"sup2">> }

\* the form values of fit_reason
FitInputs == { <<"f">>, <<" ", "g">> }

----------------------------------------------------------------------------
(* Specifications *)

InitCompanies ==
    /\ companies = <<>>
    /\ imp = [r \in Runs |-> IdleRun]
    /\ importResult = NoResult

InitFiles ==
    /\ fs = [p \in Positions |-> Absent]
    /\ documents = <<>>
    /\ reindexResult = NoResult
    /\ served = NoResult

\* no pure function has been called on its own
NoCall == [fn |-> "none"]

\* no hypothesis handler has answered
NoAnswer == [handler |-> "none"]

\* no reindex run is under way; no hypothesis handler has been called
InitRest ==
    /\ reidx = [r \in Runs |-> IdleRun]
    /\ tals = <<>>
    /\ tal_accounts = <<>>
    /\ calls = <<>>
    /\ response = NoAnswer

InitImport == InitCompanies /\ InitFiles /\ called = NoCall /\ InitRest

\* non-overlapping runs: each run goes from its start to its return before the
\* next one starts, so one slot of imp carries them all
NextImport ==
    \/ ImportMissing("r1")
    \/ \E lim \in 0..MaxRows, n \in 0..MaxRows : ImportStart("r1", lim, n)
    \/ \E row \in RawRows : ImportRow("r1", row[1], row[2])
    \/ ImportBreak("r1")
    \/ ImportEOF("r1")
    \/ ImportInterrupt("r1")

SpecImport == InitImport /\ [][NextImport]_vars

\* the websites of the rows of two overlapping runs
RaceWebsites == { <<>>, ExampleComRaw }

\* two runs, each with its own session, overlap: the steps of one are taken
\* between the steps of the other (the awaits of lines 35, 95-96 and 100-101,
\* or two server processes)
NextRace ==
    \/ \E r \in Runs, n \in 1..RaceRows : ImportStart(r, 0, n)
    \/ \E r \in Runs, rawWebsite \in RaceWebsites : ImportRow(r, <<" ", "n">>, rawWebsite)
    \/ \E r \in Runs : ImportEOF(r)

SpecRace == InitImport /\ [][NextRace]_vars

InitScan == InitCompanies /\ InitFiles /\ called = NoCall /\ InitRest

\* the tree changes between non-overlapping reindex calls
NextScan ==
    \/ \E p \in Positions, size \in Sizes, mtime \in Mtimes : CreateFile(p, size, mtime)
    \/ \E p \in Positions, size \in Sizes, mtime \in Mtimes : WriteFile(p, size, mtime)
    \/ \E p \in LinkPositions, target \in LinkTargets : MakeLink(p, target)
    \/ \E p \in Positions : DeleteFile(p)
    \/ \E order \in WalkOrders(Walked(fs, REPO_ROOT)) : Reindex(order)

SpecScan == InitScan /\ [][NextScan]_vars

\* the table holds one row whose rel_path was written from outside
InitServe ==
    /\ InitCompanies
    /\ fs = [p \in Positions |-> Absent]
    /\ documents \in {<<CraftedDocument(rel)>> : rel \in CraftedPaths}
    /\ reindexResult = NoResult
    /\ served = NoResult
    /\ called = NoCall
    /\ InitRest

\* the tree changes between the calls of the two file handlers
NextServe ==
    \/ \E p \in {PosA, PosN} : CreateFile(p, 1, 1)
    \/ \E p \in LinkPositions, target \in LinkTargets : MakeLink(p, target)
    \/ \E p \in {PosA, PosN} : DeleteFile(p)
    \/ \E i \in 1..Len(documents) : FileDownload(i)
    \/ \E i \in 1..Len(documents) : FileDetail(i)

SpecServe == InitServe /\ [][NextServe]_vars

\* two reindex runs overlap while files are created and rewritten
NextOverlap ==
    \/ \E p \in {PosA, PosSub} : CreateFile(p, 1, 1)
    \/ \E size \in Sizes : WriteFile(PosA, size, 1)
    \/ \E r \in Runs, order \in WalkOrders(Walked(fs, REPO_ROOT)) : ReindexBegin(r, order)
    \/ \E r \in Runs : ReindexCommit(r)

SpecOverlap == InitScan /\ [][NextOverlap]_vars

\* the companies table holds two imported entries; no TAL yet
InitTal ==
    /\ companies = << NewCompany(<<"n">>, ExampleCom), NewCompany(<<"n">>, <<>>) >>
    /\ imp = [r \in Runs |-> IdleRun]
    /\ importResult = NoResult
    /\ InitFiles
    /\ called = NoCall
    /\ InitRest

\* tal_detail and tal_add requests of logged-in users, none overlapping another
NextTal ==
    \/ \E user \in Users, hypothesis_id \in HypothesisIds : TalDetail(user, hypothesis_id)
    \/ \E user \in Users, hypothesis_id \in HypothesisIds,
          company_id \in IdInputs, fit_reason \in FitInputs :
          TalAdd(user, hypothesis_id, company_id, fit_reason)

SpecTal == InitTal /\ [][NextTal]_vars

\* requests of logged-in users to every handler of a hypothesis, none
\* overlapping another
NextAccess ==
    \/ \E handler \in {"hypothesis_detail", "calls_list", "hypothesis_metrics"},
          user \in Users, hypothesis_id \in HypothesisIds :
          HypothesisView(handler, user, hypothesis_id)
    \/ \E user \in Users, hypothesis_id \in HypothesisIds : TalDetail(user, hypothesis_id)
    \/ \E user \in Users, hypothesis_id \in HypothesisIds : TalAdd(user, hypothesis_id, <<"1">>, <<"f">>)
    \/ \E user \in Users, hypothesis_id \in HypothesisIds, tal_account_id \in {<<>>, <<"1">>} :
          CallsNew(user, hypothesis_id, tal_account_id)

SpecAccess == InitTal /\ [][NextAccess]_vars

\* imports and reindex runs of one server, none overlapping another: the
\* steps of an import run are taken around whole reindex calls
NextBoth ==
    \/ CreateFile(PosA, 1, 1)
    \/ DeleteFile(PosA)
    \/ \E order \in WalkOrders(Walked(fs, REPO_ROOT)) : Reindex(order)
    \/ \E n \in 1..2 : ImportStart("r1", 0, n)
    \/ \E rawWebsite \in {<<>>, ExampleComRaw} : ImportRow("r1", <<" ", "n">>, rawWebsite)
    \/ ImportEOF("r1")

SpecBoth == InitImport /\ [][NextBoth]_vars

----------------------------------------------------------------------------
(* guess_kind called on its own, on names made of a stem and an extension   *)

\* str.upper(), for writing the extensions in other letter cases
Upper(s) ==
    [i \in 1..Len(s) |->
        IF \E u \in DOMAIN UpperToLower : UpperToLower[u] = s[i]
        THEN CHOOSE u \in DOMAIN UpperToLower : UpperToLower[u] = s[i]
        ELSE s[i]]

\* an extension in lower case, in upper case and capitalized
LetterCases(e) == {e, Upper(e)} \cup (IF e = <<>> THEN {} ELSE {Upper(<<Head(e)>>) \o Tail(e)})

\* the extensions of the table of guess_kind
TableExts ==
    { <<"c", "s", "v">>, <<"h", "t", "m", "l">>, <<"h", "t", "m">>, <<"m", "d">>,
      <<"p", "y">>, <<"j", "p", "g">>, <<"j", "p", "e", "g">>, <<"p", "n", "g">>,
      <<"g", "i", "f">>, <<"w", "e", "b", "p">>, <<"d", "b">>,
      <<"s", "q", "l", "i", "t", "e">> }

\* extensions that are not in the table, the empty one among them
OtherExts ==
    { <<>>, <<"x", "y", "z">>, <<"t", "x", "t">>, <<"p", "y", "c">>, <<"m", "d", "x">>,
      <<"m">>, <<"c", "s", "v", "2">> }

KindExts == UNION {LetterCases(e) : e \in TableExts \cup OtherExts}

\* what precedes the extension in a name; the stems without a dot past their
\* first character are the names that have no extension
KindStems == { <<"a">>, <<"a", ".", "c", "s", "v">>, <<".", "g">> }
PlainStems == { <<"a">>, <<".", "g">> }

\* the file name with this stem and extension
NameOf(stem, ext) == IF ext = <<>> THEN stem ELSE stem \o <<".">> \o ext

GuessKind ==
    /\ called.fn = "guess_kind"
    /\ called.status = "pending"
    /\ called' = [called EXCEPT !.status = "returned",
                                !.result = guess_kind(NameOf(called.stem, called.ext))]
    /\ UNCHANGED <<importVars, fileVars, reidx, appVars>>

InitKind ==
    /\ InitCompanies
    /\ InitFiles
    /\ InitRest
    /\ called \in {[fn |-> "guess_kind", stem |-> c[1], ext |-> c[2],
                     status |-> "pending", result |-> ""] :
                    c \in {d \in KindStems \X KindExts : d[2] # <<>> \/ d[1] \in PlainStems}}

NextKind == GuessKind

SpecKind == InitKind /\ [][NextKind]_vars

----------------------------------------------------------------------------
(* _norm_website called on its own, on cells put together from pieces       *)

NormPieces == { <<" ">>, <<"/">>, Http, Https, <<"A">> }

RECURSIVE Concat(_)
\* the pieces of a sequence joined
Concat(pieces) == IF pieces = <<>> THEN <<>> ELSE Head(pieces) \o Concat(Tail(pieces))

NormInputs == {Concat(ps) : ps \in UNION {[1..n -> NormPieces] : n \in 0..MaxPieces}}

NormWebsite ==
    /\ called.fn = "_norm_website"
    /\ called.status = "pending"
    /\ called' = [called EXCEPT !.status = "returned", !.result = norm_website(called.arg)]
    /\ UNCHANGED <<importVars, fileVars, reidx, appVars>>

InitNorm ==
    /\ InitCompanies
    /\ InitFiles
    /\ InitRest
    /\ called \in {[fn |-> "_norm_website", arg |-> s, status |-> "pending", result |-> <<>>] :
                    s \in NormInputs}

NextNorm == NormWebsite

SpecNorm == InitNorm /\ [][NextNorm]_vars

----------------------------------------------------------------------------
(* Claims about import_companies_csv, checked under SpecImport *)

\* the rows of the returned run that were accepted, in file order
InsertedRows(log) == SelectSeq(log, LAMBDA e : e.outcome = "inserted")

\* the entries the returned run committed
StoredByRun == SubSeq(companies, importResult.startLen + 1, Len(companies))

\* C2: starting from an empty table, after any sequence of non-overlapping
\* import runs no two Company entries hold the same non-empty website.
C2_CompanySoftUnique ==
    \A i, j \in 1..Len(companies) :
        (i # j /\ companies[i].website # <<>>) => companies[i].website # companies[j].website

\* C6: among the rows of one run that normalize to the same non-empty website,
\* none but the first is inserted and every later one is counted as skipped;
\* the entries the run stores are, in file order, the inserted rows with the
\* name trimmed and the website normalized ("Example.com/" is stored as
\* "example.com"), so a later duplicate row changes nothing of a stored entry.
C6_ImportDedupWithinRun ==
    importResult.status = "ok" =>
        LET log == importResult.log
            ins == InsertedRows(log)
            stored == StoredByRun
        IN  /\ \A i, j \in 1..Len(log) :
                  ( /\ i < j
                    /\ norm_website(log[i].website) # <<>>
                    /\ norm_website(log[i].website) = norm_website(log[j].website) )
                  => log[j].outcome = "skipped"
            /\ importResult.inserted = Len(ins)
            /\ importResult.skipped = Len(log) - Len(ins)
            /\ Len(stored) = Len(ins)
            /\ \A k \in 1..Len(ins) :
                  /\ stored[k].name = norm(ins[k].name)
                  /\ stored[k].website = norm_website(ins[k].website)
                  /\ ins[k].website = ExampleComRaw => stored[k].website = ExampleCom

\* C6 witness: a returned run over two rows that both hold "Example.com/":
\* the first was inserted as "example.com", the second skipped.
C6_Witness ==
    /\ importResult.status = "ok"
    /\ Len(importResult.log) = 2
    /\ importResult.log[1].website = ExampleComRaw
    /\ importResult.log[2].website = ExampleComRaw
    /\ importResult.log[1].outcome = "inserted"
    /\ importResult.log[2].outcome = "skipped"
    /\ importResult.inserted = 1
    /\ importResult.skipped = 1
    /\ Len(StoredByRun) = 1
    /\ StoredByRun[1].website = ExampleCom

\* the rows a run has read so far, for a run in progress and for the returned one
ReadLogs ==
    {imp[r].log : r \in {q \in Runs : imp[q].pc = "loop"}}
        \cup (IF importResult.status = "ok" THEN {importResult.log} ELSE {})

\* C7: every row read whose normalized website is empty and whose trimmed name
\* is non-empty is inserted, whatever was inserted before it or is stored; the
\* returned run has stored one entry without website for each such row.
C7_NoDedupOnAbsentWebsite ==
    /\ \A log \in ReadLogs : \A i \in 1..Len(log) :
          (norm_website(log[i].website) = <<>> /\ norm(log[i].name) # <<>>)
          => log[i].outcome = "inserted"
    /\ importResult.status = "ok" =>
          Cardinality({k \in 1..Len(StoredByRun) : StoredByRun[k].website = <<>>})
            = Cardinality({i \in 1..Len(importResult.log) :
                              /\ norm_website(importResult.log[i].website) = <<>>
                              /\ norm(importResult.log[i].name) # <<>>})

\* C7 witness: the table already held an entry named "n" without website, and
\* the returned run inserted two more rows with that name and no website.
C7_Witness ==
    /\ importResult.status = "ok"
    /\ importResult.startLen >= 1
    /\ companies[1] = [name |-> <<"n">>, website |-> <<>>]
    /\ Len(importResult.log) = 2
    /\ \A i \in 1..2 :
          /\ importResult.log[i].name = <<" ", "n">>
          /\ importResult.log[i].website = <<>>
          /\ importResult.log[i].outcome = "inserted"
    /\ Len(StoredByRun) = 2
    /\ \A k \in 1..2 : StoredByRun[k] = [name |-> <<"n">>, website |-> <<>>]

Min(a, b) == IF a <= b THEN a ELSE b

\* C8: with a positive limit L and a file of N data rows the run processes
\* min(L, N) rows: inserted + skipped = min(L, N), total_rows = min(L, N), and
\* no row after the L-th is processed.
C8_RowLimit ==
    (importResult.status = "ok" /\ importResult.limit > 0) =>
        /\ importResult.inserted + importResult.skipped
             = Min(importResult.limit, importResult.nrows)
        /\ importResult.total_rows = Min(importResult.limit, importResult.nrows)
        /\ Len(importResult.log) <= importResult.limit

\* C12: no step of an import run removes a Company entry or changes a field of
\* an entry already in the table, whether it was there before the run or was
\* committed earlier in the run; the table only grows at its end.
C12_AppendOnly ==
    [][ /\ Len(companies') >= Len(companies)
        /\ SubSeq(companies', 1, Len(companies)) = companies ]_vars

\* C12 witness: a run that started on a non-empty table has returned after
\* two commits, and the table holds the earlier entries followed by the run's.
C12_Witness ==
    /\ importResult.status = "ok"
    /\ importResult.startLen >= 1
    /\ importResult.inserted > BatchSize
    /\ Len(companies) = importResult.startLen + importResult.inserted

\* C13: a call on a path that does not exist raises FileNotFoundError, returns
\* no record, starts no loop and leaves the companies table as it was; no other
\* call raises it.
C13_MissingFile ==
    /\ (importResult.status # "none" /\ ~importResult.found) =>
          /\ importResult.status = "error"
          /\ importResult.error = "FileNotFoundError"
          /\ companies = importResult.before
          /\ \A r \in Runs : imp[r].pc = "idle"
    /\ importResult.status = "error" => ~importResult.found

\* C13 witness: the call on a missing path was made on a table that already
\* held entries.
C13_Witness ==
    /\ importResult.status = "error"
    /\ importResult.error = "FileNotFoundError"
    /\ ~importResult.found
    /\ Len(companies) >= 1
    /\ companies = importResult.before

\* the entries built for the accepted rows of a log, in file order
AcceptedEntries(log) ==
    LET ins == InsertedRows(log)
    IN  [k \in 1..Len(ins) |-> NewCompany(norm(ins[k].name), norm_website(ins[k].website))]

\* C15: when a run returns, the entries it has committed are the entries of
\* its accepted rows, each once, and their number is the returned inserted
\* count, whether or not that count is a multiple of the batch size and
\* whether the loop ended at the end of the file or at the row limit.
C15_CompletePersistence ==
    importResult.status = "ok" =>
        /\ Len(companies) - importResult.startLen = importResult.inserted
        /\ StoredByRun = AcceptedEntries(importResult.log)

\* C15 witness: a returned run whose inserted count is above the batch size
\* and not a multiple of it: one flush in the loop and the final flush.
C15_Witness ==
    /\ importResult.status = "ok"
    /\ importResult.inserted > BatchSize
    /\ importResult.inserted % BatchSize # 0
    /\ Len(StoredByRun) = importResult.inserted

\* C16: at every point of a run the entries it has committed are the first
\* of the entries of its accepted rows, the rest are the pending entries, and
\* at most BatchSize entries are pending; after an interruption the table
\* still holds every committed entry and only the pending ones are missing.
C16_BoundedLoss ==
    /\ \A r \in {q \in Runs : imp[q].pc = "loop"} :
          LET accepted == AcceptedEntries(imp[r].log)
              committed == SubSeq(companies, imp[r].startLen + 1, Len(companies))
          IN  /\ accepted = committed \o imp[r].to_add
              /\ Len(imp[r].to_add) <= BatchSize
    /\ importResult.status = "interrupted" =>
          LET accepted == AcceptedEntries(importResult.log)
              committed == SubSeq(companies, importResult.startLen + 1, Len(companies))
          IN  /\ accepted = committed \o importResult.lost
              /\ Len(importResult.lost) <= BatchSize

\* C16 witness: a run was interrupted after a flush with one more accepted
\* row pending: the flushed batch is in the table, the pending entry is lost.
C16_Witness ==
    /\ importResult.status = "interrupted"
    /\ Len(importResult.lost) = 1
    /\ Len(companies) - importResult.startLen = BatchSize
    /\ Len(AcceptedEntries(importResult.log)) = BatchSize + 1

\* the step of run r reads one more row
ReadsRow(r) ==
    /\ imp[r].pc = "loop"
    /\ imp'[r].pc = "loop"
    /\ Len(imp'[r].log) = Len(imp[r].log) + 1

\* C21: a row whose trimmed name and normalized website are both empty is
\* counted as skipped, adds no entry and leaves the seen-website set as it
\* was; a row with a name, or with a website that is not in the seen set, is
\* inserted unless its website is in the seen set.
C21_EmptyRowSkip ==
    [][ \A r \in Runs : ReadsRow(r) =>
          LET e == imp'[r].log[Len(imp'[r].log)]
              name == norm(e.name)
              website == norm_website(e.website)
              seen == imp[r].existing_websites
          IN  /\ (name = <<>> /\ website = <<>>) =>
                    /\ e.outcome = "skipped"
                    /\ imp'[r].skipped = imp[r].skipped + 1
                    /\ imp'[r].inserted = imp[r].inserted
                    /\ imp'[r].existing_websites = seen
                    /\ imp'[r].to_add = imp[r].to_add
                    /\ companies' = companies
              /\ ((name # <<>> \/ website # <<>>) /\ website \notin seen) =>
                    /\ e.outcome = "inserted"
                    /\ imp'[r].inserted = imp[r].inserted + 1
                    /\ imp'[r].skipped = imp[r].skipped ]_vars

\* C21 witness: a run has inserted "Example.com/", then read a row without
\* name and website and a row without name whose website is new: the first
\* was skipped and the seen set is still the one website, the second inserted.
C21_Witness ==
    /\ imp["r1"].pc = "loop"
    /\ Len(imp["r1"].log) = 3
    /\ imp["r1"].log[1].website = ExampleComRaw
    /\ imp["r1"].log[1].outcome = "inserted"
    /\ imp["r1"].log[2] = [name |-> <<>>, website |-> <<>>, outcome |-> "skipped"]
    /\ imp["r1"].log[3].name = <<" ", "n">>
    /\ imp["r1"].log[3].website = <<>>
    /\ imp["r1"].log[3].outcome = "inserted"
    /\ imp["r1"].existing_websites = {ExampleCom}
    /\ imp["r1"].skipped = 1

\* C24: in the record a run returns, total_rows = inserted + skipped, also
\* when the run stopped at the row limit.
C24_ResultAccounting ==
    importResult.status = "ok" =>
        importResult.total_rows = importResult.inserted + importResult.skipped

----------------------------------------------------------------------------
(* Claims about overlapping import runs, checked under SpecRace *)

\* the rows of a log that were skipped although neither the table at the
\* start of the run nor an earlier row of the log held their website
SkippedForOthers(log, startLen) ==
    {i \in 1..Len(log) :
        /\ log[i].outcome = "skipped"
        /\ norm_website(log[i].website)
              \notin LoadWebsites(SubSeq(companies, 1, startLen))
        /\ \A j \in 1..(i - 1) : norm_website(log[j].website) # norm_website(log[i].website)}

\* C18: a run decides on a row from the websites stored when it started and
\* from its own earlier rows only: what another run accepts or commits after
\* that start never makes it skip a row, and on return every accepted row has
\* been committed; so two runs that both load the websites before either
\* commits both insert a row with the same non-empty website.
C18_ConcurrentImportRace ==
    /\ \A r \in {q \in Runs : imp[q].pc = "loop"} :
          SkippedForOthers(imp[r].log, imp[r].startLen) = {}
    /\ importResult.status = "ok" =>
          /\ SkippedForOthers(importResult.log, importResult.startLen) = {}
          /\ \A k \in 1..Len(AcceptedEntries(importResult.log)) :
                \E i \in (importResult.startLen + 1)..Len(companies) :
                    companies[i] = AcceptedEntries(importResult.log)[k]

\* C18 witness: a run that started on the empty table and read the single row
\* "Example.com/" has returned, and the table holds two entries with the
\* website "example.com": the other one was committed by an overlapping run.
C18_Witness ==
    /\ importResult.status = "ok"
    /\ importResult.startLen = 0
    /\ Len(importResult.log) = 1
    /\ importResult.log[1].website = ExampleComRaw
    /\ importResult.log[1].outcome = "inserted"
    /\ Cardinality({i \in 1..Len(companies) : companies[i].website = ExampleCom}) = 2

----------------------------------------------------------------------------
(* Claims about iter_repo_files and reindex_documents, checked under SpecScan *)

DocPaths(table) == {table[i].rel_path : i \in 1..Len(table)}

\* C1: a reindex run that follows a completed run with no change of the tree
\* in between returns created = 0, updated = 0, deleted = 0 and leaves the
\* documents table as it was.
C1_ScannerIdempotent ==
    (reindexResult.status = "ok" /\ reindexResult.second) =>
        /\ reindexResult.created = 0
        /\ reindexResult.updated = 0
        /\ reindexResult.deleted = 0
        /\ documents = reindexResult.prior

\* C3: after a completed reindex the rel_paths of the table are the scanned
\* paths, and each entry's size, time, kind and extension are those the scan
\* holds for its path.
C3_ReconcilePostState ==
    reindexResult.status = "ok" =>
        LET metas == reindexResult.metas
        IN  /\ DocPaths(documents) = ScannedPaths(metas)
            /\ \A i \in 1..Len(documents), k \in 1..Len(metas) :
                  documents[i].rel_path = metas[k].rel_path
                  => /\ documents[i].size_bytes = metas[k].size_bytes
                     /\ documents[i].mtime_unix = metas[k].mtime_unix
                     /\ documents[i].kind = metas[k].kind
                     /\ documents[i].ext = metas[k].ext

\* C4: a completed reindex returns created = the scanned paths absent from the
\* prior table, updated = the scanned paths stored in the prior table with a
\* size, time, kind or extension other than the scanned one, deleted = the
\* prior entries whose path was not scanned, total_scanned = the scanned paths.
C4_ReconcileCounts ==
    reindexResult.status = "ok" =>
        LET metas == reindexResult.metas
            prior == reindexResult.prior
            scanned == ScannedPaths(metas)
            changed == {path \in scanned \cap DocPaths(prior) :
                          \E i \in 1..Len(prior), k \in 1..Len(metas) :
                              /\ prior[i].rel_path = path
                              /\ metas[k].rel_path = path
                              /\ \/ prior[i].size_bytes # metas[k].size_bytes
                                 \/ prior[i].mtime_unix # metas[k].mtime_unix
                                 \/ prior[i].kind # metas[k].kind
                                 \/ prior[i].ext # metas[k].ext}
        IN  /\ reindexResult.created = Cardinality(scanned \ DocPaths(prior))
            /\ reindexResult.updated = Cardinality(changed)
            /\ reindexResult.deleted
                 = Cardinality({i \in 1..Len(prior) : prior[i].rel_path \notin scanned})
            /\ reindexResult.total_scanned = Cardinality(scanned)

\* C5: after any sequence of non-overlapping reindex runs the documents table
\* holds no two entries with the same rel_path.
C5_DocumentUnique ==
    \A i, j \in 1..Len(documents) : i # j => documents[i].rel_path # documents[j].rel_path

\* C5 witness: a run over a tree in which two visited files resolve to one new
\* path staged two inserts for it; the commit failed and the table holds
\* every stored path once.
C5_Witness ==
    /\ reindexResult.status = "error"
    /\ reindexResult.error = "IntegrityError"
    /\ fs[PosA].type = "file"
    /\ fs[PosN] = SymLink(PosA)
    /\ Len(documents) = 1
    /\ documents[1].rel_path # Name_a_md

\* the directory names of a stored rel_path
DirNames(rel_path) == LET parts == PathParts(rel_path) IN {parts[i] : i \in 1..(Len(parts) - 1)}

\* C10: no rel_path inside a directory named .venv, __pycache__ or .git is in
\* the result of iter_repo_files, nor in the documents table.
C10_ExcludedDirsNeverScanned ==
    /\ reindexResult.status = "ok" =>
          \A k \in 1..Len(reindexResult.metas) :
              DirNames(reindexResult.metas[k].rel_path) \cap EXCLUDED_DIRS = {}
    /\ \A i \in 1..Len(documents) : DirNames(documents[i].rel_path) \cap EXCLUDED_DIRS = {}

\* the rel_path a file at this place of the tree has under the root
RelPathOf(p) == AsPosix(SubSeq(p, Len(REPO_ROOT) + 1, Len(p)))

\* C14: no file makes the scan abort: a file whose stat fails is left out and
\* every regular file the walk visits whose name is not excluded is in the
\* result of iter_repo_files.
C14_ScanTolerant ==
    /\ reindexResult.status = "error" => reindexResult.error # "ValueError"
    /\ reindexResult.status = "ok" =>
          \A p \in Walked(fs, REPO_ROOT) :
              (fs[p].type = "file" /\ ~SkippedByName(Last(p)))
              => RelPathOf(p) \in ScannedPaths(reindexResult.metas)

\* C17: a reindex run commits once, after everything is staged; a run that
\* fails has committed nothing and leaves the documents table as it was
\* before the run, and a run that returns leaves the table with exactly the
\* scanned paths.
C17_SingleTransaction ==
    /\ reindexResult.status = "error" =>
          /\ documents = reindexResult.prior
          /\ reindexResult.commits = 0
    /\ reindexResult.status = "ok" =>
          /\ DocPaths(documents) = ScannedPaths(reindexResult.metas)
          /\ reindexResult.commits = 1

\* C17 witness: a run that had staged the removal of the entry "d/a.md" and
\* two inserts for one new path failed at its commit; the entry is still in
\* the table and the table is the one before the run.
C17_Witness ==
    /\ reindexResult.status = "error"
    /\ reindexResult.error = "IntegrityError"
    /\ fs[PosSub].type = "absent"
    /\ \E i \in 1..Len(documents) : documents[i].rel_path = RelPathOf(PosSub)
    /\ documents = reindexResult.prior

\* C20: the result of iter_repo_files holds each rel_path once, so that a
\* reindex run never stages two inserts for one path (its commit never fails
\* on the unique rel_path) and total_scanned is the number of scanned paths.
C20_ScanIsMapping ==
    /\ reindexResult.status = "error" => reindexResult.error # "IntegrityError"
    /\ reindexResult.status = "ok" =>
          /\ \A i, j \in 1..Len(reindexResult.metas) :
                i # j => reindexResult.metas[i].rel_path # reindexResult.metas[j].rel_path
          /\ reindexResult.total_scanned
               = Cardinality(ScannedPaths(reindexResult.metas))

\* the file name of a rel_path
FileNameOf(rel_path) == Last(PathParts(rel_path))

\* C22: no entry of the result of iter_repo_files is for a file named
\* product.db-wal or product.db-shm or with the extension .pyc in any letter
\* case, in whatever directory the file lies.
C22_ExcludedFiles ==
    reindexResult.status = "ok" =>
        \A k \in 1..Len(reindexResult.metas) :
            ~SkippedByName(FileNameOf(reindexResult.metas[k].rel_path))

\* the kind of guess_kind for a file with this extension
KindOfExt(ext) == guess_kind(IF ext = <<>> THEN <<"x">> ELSE <<"x", ".">> \o ext)

\* C27: after any sequence of reindex runs the kind of every Document entry
\* is the kind guess_kind gives to the entry's stored ext.
C27_KindFollowsExt ==
    \A i \in 1..Len(documents) : documents[i].kind = KindOfExt(documents[i].ext)

\* C27 witness: the entry for "a.md" was created with ext "md" and kind md and
\* then overwritten from a link without extension: ext is empty, kind other.
C27_Witness ==
    /\ reindexResult.status = "ok"
    /\ \E i \in 1..Len(reindexResult.prior) :
          /\ reindexResult.prior[i].rel_path = Name_a_md
          /\ reindexResult.prior[i].ext = <<"m", "d">>
          /\ reindexResult.prior[i].kind = "md"
    /\ \E i \in 1..Len(documents) :
          /\ documents[i].rel_path = Name_a_md
          /\ documents[i].ext = <<>>
          /\ documents[i].kind = "other"

\* C28: every rel_path the scan produces lies under the root, so the scan
\* never fails on a file that resolves outside the root and
\* safe_resolve_under_repo accepts every rel_path a reindex run has stored.
C28_ScannedPathsServable ==
    /\ reindexResult.status = "error" => reindexResult.error # "ValueError"
    /\ reindexResult.status = "ok" =>
          \A i \in 1..Len(documents) :
              safe_resolve_under_repo(fs, documents[i].rel_path).ok

----------------------------------------------------------------------------
(* Claims about overlapping reindex runs, checked under SpecOverlap *)

\* C26: when reindex runs overlap the documents table never holds two entries
\* with one rel_path; the commit of a run whose staged rows would give a
\* second entry for a path fails and leaves the table as it was.
C26_UniqueUnderOverlap ==
    /\ \A i, j \in 1..Len(documents) : i # j => documents[i].rel_path # documents[j].rel_path
    /\ (reindexResult.status = "error" /\ reindexResult.error = "IntegrityError") =>
          documents = reindexResult.prior

\* C26 witness: two runs staged an insert for the new path "a.md"; the first
\* commit stored it, the second failed, and the table holds the path once.
C26_Witness ==
    /\ reindexResult.status = "error"
    /\ reindexResult.error = "IntegrityError"
    /\ Len(reindexResult.added) = 1
    /\ reindexResult.added[1].rel_path = Name_a_md
    /\ Cardinality({i \in 1..Len(documents) : documents[i].rel_path = Name_a_md}) = 1
    /\ \A r \in Runs : reidx[r].pc = "idle"

----------------------------------------------------------------------------
(* Claims about the two routines together, checked under SpecBoth *)

\* C23: a step of an import run leaves the documents table and the result of
\* the latest reindex as they were, and a step that changes the documents
\* table or answers a reindex call leaves the companies table, the runs and
\* the latest import result as they were.
C23_Independence ==
    [][ /\ (importVars' # importVars) =>
              (documents' = documents /\ reindexResult' = reindexResult)
        /\ (documents' # documents \/ reindexResult' # reindexResult) =>
              (importVars' = importVars) ]_vars

\* C23 witness: a reindex run has created an entry and, after it, an import
\* run has inserted one: both tables hold what their routine stored.
C23_Witness ==
    /\ reindexResult.status = "ok"
    /\ reindexResult.created = 1
    /\ Len(documents) = 1
    /\ importResult.status = "ok"
    /\ importResult.inserted >= 1
    /\ Len(companies) >= 1

----------------------------------------------------------------------------
(* Claims about the hypothesis handlers, checked under SpecAccess and SpecTal *)

\* the user may see the hypothesis with this id: it is stored, and the user
\* owns it or is an admin
MayAccess(user, hypothesis_id) ==
    /\ hypothesis_id \in 1..Len(Hypotheses)
    /\ user.role = "admin" \/ Hypotheses[hypothesis_id].owner_user_id = user.id

\* the table after the step is the table before it, or that with one row more
GrowsByAtMostOne(before, after) ==
    /\ Len(after) \in {Len(before), Len(before) + 1}
    /\ SubSeq(after, 1, Len(before)) = before

\* C29: a handler gets the hypothesis it was asked for when the user owns it
\* or is an admin; for any other user and for an id that is not stored it
\* gets none, answers with the redirect and writes nothing; every row a
\* handler writes (TAL, account, call) is of the hypothesis it was asked for,
\* and no stored row is changed.
C29_HypothesisAccess ==
    [][ LET user == response'.user
            hypothesis_id == response'.hypothesis_id
        IN  /\ MayAccess(user, hypothesis_id) => response'.shown = hypothesis_id
            /\ ~MayAccess(user, hypothesis_id) =>
                  /\ response'.shown = 0
                  /\ response'.status = "redirect"
                  /\ UNCHANGED <<tals, tal_accounts, calls>>
            /\ GrowsByAtMostOne(tals, tals')
            /\ GrowsByAtMostOne(tal_accounts, tal_accounts')
            /\ GrowsByAtMostOne(calls, calls')
            /\ Len(tals') > Len(tals) => tals'[Len(tals')].hypothesis_id = hypothesis_id
            /\ Len(tal_accounts') > Len(tal_accounts) =>
                  tals'[tal_accounts'[Len(tal_accounts')].tal_id].hypothesis_id = hypothesis_id
            /\ Len(calls') > Len(calls) => calls'[Len(calls')].hypothesis_id = hypothesis_id
      ]_vars

\* C29 witness: user 1 posted a call for hypothesis 2, which user 2 owns and
\* which has a TAL with an account: the answer is the redirect, no call is stored.
C29_Witness ==
    /\ response.handler = "calls_new"
    /\ response.user = [id |-> 1, role |-> "user"]
    /\ response.hypothesis_id = 2
    /\ response.status = "redirect"
    /\ response.shown = 0
    /\ calls = <<>>
    /\ \E i \in 1..Len(tal_accounts) : tals[tal_accounts[i].tal_id].hypothesis_id = 2

\* a form value that is not a number written in decimal digits
NotDecimal(s) == s = <<>> \/ \E i \in 1..Len(s) : s[i] \notin DOMAIN DigitValue

\* C30: each hypothesis has at most one TAL and each TAL at most one account
\* per company; a tal_add for a company that is in the TAL of the hypothesis,
\* or with a company id that is not a number or not the id of a stored
\* company, adds no account; no request changes a stored account.
C30_TalDedup ==
    [][ /\ \A i, j \in 1..Len(tals') :
              i # j => tals'[i].hypothesis_id # tals'[j].hypothesis_id
        /\ \A i, j \in 1..Len(tal_accounts') :
              i # j => ~ /\ tal_accounts'[i].tal_id = tal_accounts'[j].tal_id
                         /\ tal_accounts'[i].company_id = tal_accounts'[j].company_id
        /\ GrowsByAtMostOne(tal_accounts, tal_accounts')
        /\ response'.handler = "tal_add" =>
              LET digits == norm(response'.input)
                  cid == IF NotDecimal(digits) THEN 0 ELSE ToInt(digits)
                  inTal == \E i \in 1..Len(tal_accounts) :
                              /\ tal_accounts[i].company_id = cid
                              /\ tals[tal_accounts[i].tal_id].hypothesis_id
                                    = response'.hypothesis_id
              IN  (NotDecimal(digits) \/ cid \notin 1..Len(companies) \/ inTal)
                  => tal_accounts' = tal_accounts
      ]_vars

\* C30 witness: a tal_add for company 1, already in the TAL, found the account
\* and the table still holds the one account.
C30_Witness ==
    /\ response.handler = "tal_add"
    /\ response.status = "exists"
    /\ norm(response.input) = <<"1">>
    /\ Len(tal_accounts) = 1
    /\ tal_accounts[1].company_id = 1
    /\ Len(tals) = 1

----------------------------------------------------------------------------
(* Claims about the file handlers, checked under SpecServe *)

\* C9: safe_resolve_under_repo returns a path only when the resolved target
\* is the root or lies below it, and returns None for every stored rel_path
\* whose target resolves outside the root; the file that file_download or
\* file_detail reads is never outside the root.
C9_PathTraversalRejected ==
    /\ \A i \in 1..Len(documents) :
          LET r == safe_resolve_under_repo(fs, documents[i].rel_path)
              target == Resolve(fs, JoinRoot(documents[i].rel_path))
              inside == Len(target) >= Len(REPO_ROOT)
                          /\ SubSeq(target, 1, Len(REPO_ROOT)) = REPO_ROOT
          IN  /\ r.ok => (r.path = target /\ inside)
              /\ ~inside => ~r.ok
    /\ served.status \in {"file", "preview"} =>
          /\ Len(served.read) >= Len(REPO_ROOT)
          /\ SubSeq(served.read, 1, Len(REPO_ROOT)) = REPO_ROOT

\* C9 witness: the stored path is "n", a link in the root to the file outside
\* it, and file_download answered with the redirect.
C9_Witness ==
    /\ documents[1].rel_path = Name_n
    /\ fs[PosN] = SymLink(PosOutside)
    /\ served.status = "redirect"
    /\ served.handler = "download"

----------------------------------------------------------------------------
(* Claims about _norm_website, checked under SpecNorm *)

\* C19: the value of _norm_website never starts with http:// or https://,
\* never starts or ends with a slash or with whitespace, and holds no upper
\* case letter.
C19_NormWebsiteResult ==
    (called.fn = "_norm_website" /\ called.status = "returned") =>
        LET res == called.result
        IN  /\ ~IsPrefix(Http, res)
            /\ ~IsPrefix(Https, res)
            /\ res # <<>> =>
                  /\ res[1] \notin Whitespace \cup {"/"}
                  /\ res[Len(res)] \notin Whitespace \cup {"/"}
            /\ \A i \in 1..Len(res) : res[i] \notin DOMAIN UpperToLower

\* C25: _norm_website applied to its own value returns that value.
C25_NormIdempotent ==
    (called.fn = "_norm_website" /\ called.status = "returned") =>
        norm_website(called.result) = called.result

----------------------------------------------------------------------------
(* Claims about guess_kind, checked under SpecKind *)

\* the kind the table gives to an extension written in lower case
KindTable(ext) ==
    IF ext = <<"c", "s", "v">> THEN "csv"
    ELSE IF ext = <<"h", "t", "m", "l">> \/ ext = <<"h", "t", "m">> THEN "html"
    ELSE IF ext = <<"m", "d">> THEN "md"
    ELSE IF ext = <<"p", "y">> THEN "py"
    ELSE IF \/ ext = <<"j", "p", "g">> \/ ext = <<"j", "p", "e", "g">>
            \/ ext = <<"p", "n", "g">> \/ ext = <<"g", "i", "f">>
            \/ ext = <<"w", "e", "b", "p">> THEN "image"
    ELSE IF ext = <<"d", "b">> \/ ext = <<"s", "q", "l", "i", "t", "e">> THEN "db"
    ELSE "other"

\* C11: guess_kind maps a name whose extension, lowercased, is csv to csv; html
\* and htm to html; md to md; py to py; jpg, jpeg, png, gif and webp to image;
\* db and sqlite to db; every other extension, the empty one included, to
\* other; the letter case of the extension makes no difference.
C11_KindMapping ==
    (called.fn = "guess_kind" /\ called.status = "returned") =>
        /\ called.result = KindTable(Lower(called.ext))
        /\ called.result = guess_kind(NameOf(called.stem, Lower(called.ext)))

\* C11 witness: guess_kind returned image for a name ending in ".JPEG".
C11_Witness ==
    /\ called.fn = "guess_kind"
    /\ called.status = "returned"
    /\ called.ext = <<"J", "P", "E", "G">>
    /\ called.result = "image"

====
